---------------------------- MODULE Spec2Model ----------------------------
(* A model of app/main.py of raycast_api_proxy: the bearer-token session    *)
(* map and allow-list gate, the provider registry and its index, the chat   *)
(* completion dispatcher with its two request translators, the two stream   *)
(* adapters, and the two response rewriters (/api/v1/me, /api/v1/ai/models).*)
(*                                                                          *)
(* Conventions.                                                             *)
(*  - Python None, for values that are otherwise strings, is the string     *)
(*    None; Truthy(v) is Python's truth value of such a value.              *)
(*  - A Python dict / JSON object is a function whose DOMAIN is its set of  *)
(*    keys ("k" in d  is  "k" \in DOMAIN d).                                *)
(*  - Text that the code concatenates (message fragments) is a sequence of  *)
(*    one-character strings, so that  +  is \o  and "\n" is a character.    *)
(*  - A handler that raises leaves response.status = 500 and names the      *)
(*    exception in response.error.                                          *)
EXTENDS Integers, Sequences, FiniteSets, TLC

VARIABLES
    ALLOWED_USERS,    \* main.py:25  allow-list; {} stands for None
    FORCE_MODEL,      \* main.py:61
    openai_api_key,   \* main.py:111
    google_api_key,   \* main.py:112
    USER_SESSION,     \* main.py:24  bearer token -> user email
    request,          \* the request handled by the last step
    response,         \* the response the handler returned for it
    lookups,          \* keys looked up in MODEL_PROVIDER_MAP by that handler
    calls,            \* provider calls issued for that request
    chunks,           \* the provider stream being adapted (all its items)
    pos,              \* number of items the adapter has consumed
    emitted,          \* SSE frames the adapter has yielded so far
    stream_of,        \* the generator running: "none" | "openai" | "google"
    stream_state,     \* "idle" | "open" | "done" (returned) | "error" (raised)
    inflight          \* the handler coroutines: per slot, where the handler is

vars == <<ALLOWED_USERS, FORCE_MODEL, openai_api_key, google_api_key,
          USER_SESSION, request, response, lookups, calls,
          chunks, pos, emitted, stream_of, stream_state, inflight>>

config == <<ALLOWED_USERS, FORCE_MODEL, openai_api_key, google_api_key>>

stream_vars == <<chunks, pos, emitted, stream_of, stream_state>>

-----------------------------------------------------------------------------
(* Bounds of the model                                                      *)

MaxMsgs == 2

MaxChunks == 3

\* Number of requests handled concurrently by the event loop.
MaxRequests == 3

-----------------------------------------------------------------------------
(* Python values                                                            *)

None == "None"

Truthy(v) == v \notin {None, ""}

Range(s) == {s[i] : i \in 1..Len(s)}

RECURSIVE Concat(_)
Concat(ss) == IF ss = <<>> THEN <<>> ELSE Head(ss) \o Concat(Tail(ss))

SeqsUpTo(S, n) == UNION {[1..k -> S] : k \in 0..n}

NL == <<"\n">>

-----------------------------------------------------------------------------
(* Session map and allow-list gate (main.py:24-53)                          *)

\* request.headers.get("Authorization", "").split(" "): the header is held
\* as the list of its space-separated parts; an absent header defaults to
\* "", whose split is [""].
NoAuthorization == <<"">>

Bearer(token) == <<"Bearer", token>>

\* ...split(" ")[1] raises IndexError when the list has fewer than 2 parts.
HasBearerToken(req) == Len(req.auth) >= 2

bearer_token(req) == req.auth[2]

\* Faulty variant: add_user without the "not in USER_SESSION" test.
add_user_overwrite(session, req, user_email) ==
    [t \in DOMAIN session \cup {bearer_token(req)} |->
        IF t = bearer_token(req) THEN user_email ELSE session[t]]

\* add_user: the session map after the call (the caller has checked
\* HasBearerToken; without a token the call raises IndexError).
add_user(session, req, user_email) ==
    IF bearer_token(req) \notin DOMAIN session
    THEN [t \in DOMAIN session \cup {bearer_token(req)} |->
            IF t = bearer_token(req) THEN user_email ELSE session[t]]
    ELSE session

\* Faulty variant: check_auth that accepts every token that has a session.
check_auth_any_session(session, allowed, req) ==
    IF allowed = {} THEN TRUE
    ELSE bearer_token(req) \in DOMAIN session

\* check_auth: its return value (for a request with a bearer token when an
\* allow-list is configured; see CheckAuthRaises).
check_auth(session, allowed, req) ==
    IF allowed = {} THEN TRUE
    ELSE IF bearer_token(req) \notin DOMAIN session THEN FALSE
    ELSE IF session[bearer_token(req)] \notin allowed THEN FALSE
    ELSE TRUE

\* check_auth raises IndexError: allow-list configured and no token part.
CheckAuthRaises(allowed, req) == allowed # {} /\ ~HasBearerToken(req)

-----------------------------------------------------------------------------
(* Provider registry (main.py:63-141)                                       *)

ChatFeatures == <<"chat", "quick_ai", "commands", "api">>

SERVICE_PROVIDERS ==
    [openai |-> <<
        [id |-> "openai-gpt-3.5-turbo", model |-> "gpt-3.5-turbo",
         name |-> "GPT-3.5 Turbo", provider |-> "openai",
         provider_name |-> "OpenAI", requires_better_ai |-> TRUE,
         features |-> ChatFeatures],
        [id |-> "openai-gpt-4-1106-preview", model |-> "gpt-4-1106-preview",
         name |-> "GPT-4 Turbo", provider |-> "openai",
         provider_name |-> "OpenAI", requires_better_ai |-> TRUE,
         features |-> ChatFeatures] >>,
     google |-> <<
        [id |-> "gemini-pro", model |-> "gemini-pro",
         name |-> "Gemini Pro", provider |-> "google",
         provider_name |-> "Google", requires_better_ai |-> TRUE,
         features |-> <<>>] >>]

\* The dict's keys in insertion order.
ProviderOrder == <<"openai", "google">>

\* list(chain.from_iterable(SERVICE_PROVIDERS.values()))
Catalog == Concat([i \in 1..Len(ProviderOrder) |-> SERVICE_PROVIDERS[ProviderOrder[i]]])

\* The last index at which key k occurs in keys: a dict comprehension keeps
\* the last value written for a key.
LastIndexOf(keys, k) ==
    CHOOSE i \in 1..Len(keys) :
        keys[i] = k /\ \A j \in (i+1)..Len(keys) : keys[j] # k

\* Faulty variant: the index keyed by the descriptor's id.
MODEL_PROVIDER_MAP_by_id ==
    LET keys == [i \in 1..Len(Catalog) |-> Catalog[i].id]
    IN  [k \in Range(keys) |-> Catalog[LastIndexOf(keys, k)].provider]

\* MODEL_PROVIDER_MAP = {p["model"]: p["provider"] for p in chain(...)}
MODEL_PROVIDER_MAP ==
    LET keys == [i \in 1..Len(Catalog) |-> Catalog[i].model]
    IN  [k \in Range(keys) |-> Catalog[LastIndexOf(keys, k)].provider]

\* Which branch of the startup if/elif (main.py:113, 123) ran.
ActiveBackend(okey, gkey) ==
    IF Truthy(gkey) THEN "google"
    ELSE IF Truthy(okey) THEN "openai"
    ELSE "none"

\* openai_client is bound only by the elif branch (main.py:128-134).
OpenaiClientBound(okey, gkey) == ActiveBackend(okey, gkey) = "openai"

\* RAYCAST_DEFAULT_MODELS is bound only by one of the two branches.
DefaultModelsBound(okey, gkey) == ActiveBackend(okey, gkey) # "none"

RAYCAST_DEFAULT_MODELS(okey, gkey) ==
    IF ActiveBackend(okey, gkey) = "google"
    THEN [chat |-> "gemini-pro", quick_ai |-> "gemini-pro",
          commands |-> "gemini-pro", api |-> "gemini-pros"]
    ELSE [chat |-> "openai-gpt-3.5-turbo", quick_ai |-> "openai-gpt-3.5-turbo",
          commands |-> "openai-gpt-3.5-turbo", api |-> "openai-gpt-3.5-turbo"]

\* Faulty variant: get_model that ignores FORCE_MODEL.
get_model_request_only(force, raycast_data) == raycast_data.model

\* get_model: FORCE_MODEL or raycast_data["model"]
get_model(force, raycast_data) ==
    IF Truthy(force) THEN force ELSE raycast_data.model

-----------------------------------------------------------------------------
(* Request translators (main.py:148-176, 200-215)                           *)

\* MAX_TOKENS = os.environ.get("MAX_TOKENS", 1024)
MAX_TOKENS == 1024

\* os.environ.get("TEMPERATURE", 0.5); temperatures are counted in tenths.
DEFAULT_TEMPERATURE == 5

Has(d, k) == k \in DOMAIN d

\* Faulty variant: additional_system_instructions appended only in the
\* iterations of messages that have a text.
openai_units_additional_with_text(raycast_data, msg) ==
    (IF Has(msg.content, "system_instructions")
     THEN <<[role |-> "system", content |-> msg.content["system_instructions"]]>>
     ELSE <<>>)
    \o
    (IF Has(msg.content, "command_instructions")
     THEN <<[role |-> "system", content |-> msg.content["command_instructions"]]>>
     ELSE <<>>)
    \o
    (IF Has(raycast_data, "additional_system_instructions")
           /\ Has(msg.content, "text")
     THEN <<[role |-> "system",
             content |-> raycast_data["additional_system_instructions"]]>>
     ELSE <<>>)
    \o
    (IF Has(msg.content, "text")
     THEN <<[role |-> "user", content |-> msg.content["text"]]>>
     ELSE <<>>)

\* The units one iteration of the loop at main.py:151-174 appends.
openai_units(raycast_data, msg) ==
    (IF Has(msg.content, "system_instructions")
     THEN <<[role |-> "system", content |-> msg.content["system_instructions"]]>>
     ELSE <<>>)
    \o
    (IF Has(msg.content, "command_instructions")
     THEN <<[role |-> "system", content |-> msg.content["command_instructions"]]>>
     ELSE <<>>)
    \o
    (IF Has(raycast_data, "additional_system_instructions")
     THEN <<[role |-> "system",
             content |-> raycast_data["additional_system_instructions"]]>>
     ELSE <<>>)
    \o
    (IF Has(msg.content, "text")
     THEN <<[role |-> "user", content |-> msg.content["text"]]>>
     ELSE <<>>)

\* Faulty variant: the "text" test written as an elif of the instruction tests.
openai_messages_elif(raycast_data) ==
    Concat([i \in 1..Len(raycast_data.messages) |->
        LET msg == raycast_data.messages[i]
        IN  IF Has(msg.content, "system_instructions")
               \/ Has(msg.content, "command_instructions")
            THEN SelectSeq(openai_units(raycast_data, msg),
                           LAMBDA u : u.role = "system")
            ELSE openai_units(raycast_data, msg)])

\* openai_messages after the loop at main.py:151-176.
openai_messages(raycast_data) ==
    Concat([i \in 1..Len(raycast_data.messages) |->
                openai_units(raycast_data, raycast_data.messages[i])])

\* The text one iteration of the loop at main.py:205-213 appends.
gemini_fragment(raycast_data, msg) ==
    (IF Has(msg.content, "system_instructions")
     THEN msg.content["system_instructions"] \o NL ELSE <<>>)
    \o
    (IF Has(msg.content, "command_instructions")
     THEN msg.content["command_instructions"] \o NL ELSE <<>>)
    \o
    (IF Has(raycast_data, "additional_system_instructions")
     THEN raycast_data["additional_system_instructions"] \o NL ELSE <<>>)
    \o
    (IF Has(msg.content, "text")
     THEN msg.content["text"] \o NL ELSE <<>>)

\* google_message after the loop at main.py:205-215.
google_message(raycast_data) ==
    Concat([i \in 1..Len(raycast_data.messages) |->
                gemini_fragment(raycast_data, raycast_data.messages[i])])

\* Faulty variant: only the last message is looked at, so that a last message
\* without a temperature resets the value to the default.
temperature_of_last_message(msgs, temperature) ==
    IF msgs # <<>> /\ Has(msgs[Len(msgs)].content, "temperature")
    THEN msgs[Len(msgs)].content["temperature"]
    ELSE temperature

\* temperature after the loop (main.py:150, 175-176 and 204, 214-215).
RECURSIVE temperature_after(_, _)
temperature_after(msgs, temperature) ==
    IF msgs = <<>> THEN temperature
    ELSE temperature_after(Tail(msgs),
            IF Has(Head(msgs).content, "temperature")
            THEN Head(msgs).content["temperature"]
            ELSE temperature)

\* openai_client.chat.completions.create(...) at main.py:179-187.
openai_call(force, raycast_data) ==
    [provider |-> "openai",
     model |-> get_model(force, raycast_data),
     messages |-> openai_messages(raycast_data),
     max_tokens |-> MAX_TOKENS,
     n |-> 1,
     temperature |-> temperature_after(raycast_data.messages, DEFAULT_TEMPERATURE),
     stream |-> TRUE]

\* genai.GenerativeModel(...).generate_content(...) at main.py:201, 218-226.
gemini_call(force, raycast_data) ==
    [provider |-> "google",
     model |-> get_model(force, raycast_data),
     prompt |-> google_message(raycast_data),
     candidate_count |-> 1,
     max_output_tokens |-> MAX_TOKENS,
     temperature |-> temperature_after(raycast_data.messages, DEFAULT_TEMPERATURE),
     stream |-> TRUE]

-----------------------------------------------------------------------------
(* Handlers (main.py:240-338): each returns the response, and what else the *)
(* handler did                                                              *)

Raised(exception) == [status |-> 500, error |-> exception]

\* POST /api/v1/ai/chat_completions

\* main.py:247-253: the handler after the gate: resolve the model, look its
\* provider up and hand the request to that provider's function.
dispatch(force, okey, gkey, req) ==
    LET model_id == get_model(force, req.data)
    IN
    IF model_id \notin DOMAIN MODEL_PROVIDER_MAP
    THEN [response |-> Raised("KeyError"),
          lookups |-> <<model_id>>, calls |-> <<>>]
    ELSE IF MODEL_PROVIDER_MAP[model_id] = "openai" /\ Truthy(okey)
    THEN \* StreamingResponse(openai_stream()): the generator body runs after
         \* the 200 has been sent, and its first statement reads openai_client.
         IF OpenaiClientBound(okey, gkey)
         THEN [response |-> [status |-> 200, media_type |-> "text/event-stream",
                             stream |-> "openai"],
               lookups |-> <<model_id>>,
               calls |-> <<openai_call(force, req.data)>>]
         ELSE [response |-> [status |-> 200, media_type |-> "text/event-stream",
                             stream |-> "NameError"],
               lookups |-> <<model_id>>, calls |-> <<>>]
    ELSE IF MODEL_PROVIDER_MAP[model_id] = "google" /\ Truthy(gkey)
    THEN [response |-> [status |-> 200, media_type |-> "text/event-stream",
                        stream |-> "google"],
          lookups |-> <<model_id, model_id>>,
          calls |-> <<gemini_call(force, req.data)>>]
    ELSE \* the function falls off its end: FastAPI answers 200 with null
         [response |-> [status |-> 200, media_type |-> "application/json",
                        stream |-> "null"],
          lookups |-> <<model_id, model_id>>, calls |-> <<>>]

\* Faulty variant: the handler that dispatches first and consults the gate
\* only when it builds the response.
chat_completions_late_gate(session, allowed, force, okey, gkey, req) ==
    LET out == dispatch(force, okey, gkey, req)
    IN
    IF CheckAuthRaises(allowed, req)
    THEN [response |-> Raised("IndexError"), lookups |-> <<>>, calls |-> <<>>]
    ELSE IF ~check_auth(session, allowed, req)
    THEN [response |-> [status |-> 401],
          lookups |-> out.lookups, calls |-> out.calls]
    ELSE out

\* main.py:240-253
chat_completions(session, allowed, force, okey, gkey, req) ==
    IF CheckAuthRaises(allowed, req)
    THEN [response |-> Raised("IndexError"), lookups |-> <<>>, calls |-> <<>>]
    ELSE IF ~check_auth(session, allowed, req)
    THEN [response |-> [status |-> 401], lookups |-> <<>>, calls |-> <<>>]
    ELSE dispatch(force, okey, gkey, req)

SetKey(d, k, v) == [x \in DOMAIN d \cup {k} |-> IF x = k THEN v ELSE d[x]]

RECURSIVE SetKeys(_, _, _)
SetKeys(d, ks, v) ==
    IF ks = <<>> THEN d ELSE SetKeys(SetKey(d, Head(ks), v), Tail(ks), v)

\* The fields main.py:271-280 sets to True, in the order of the code.
EntitlementFields ==
    <<"eligible_for_pro_features", "has_active_subscription", "eligible_for_ai",
      "eligible_for_gpt4", "eligible_for_ai_citations",
      "eligible_for_developer_hub", "eligible_for_application_settings",
      "publishing_bot", "has_pro_features", "has_better_ai">>

\* Faulty variant: the rewrite without the line  data["admin"] = True.
rewrite_profile_no_admin(data) ==
    SetKey(SetKeys(data, EntitlementFields, TRUE), "can_upgrade_to_pro", FALSE)

\* main.py:271-282
rewrite_profile(data) ==
    SetKey(SetKey(SetKeys(data, EntitlementFields, TRUE),
                  "can_upgrade_to_pro", FALSE),
           "admin", TRUE)

\* Faulty variant: the profile branch taken whatever the upstream status.
profile_branch_always(upstream) == TRUE

\* main.py:269
profile_branch(upstream) == upstream.status = 200

\* GET /api/v1/me
proxy(session, req) ==
    IF profile_branch(req.upstream)
    THEN LET data == rewrite_profile(req.upstream.content)
         IN  IF ~Has(data, "email")
             THEN [response |-> Raised("KeyError"), session |-> session]
             ELSE IF ~HasBearerToken(req)
             THEN [response |-> Raised("IndexError"), session |-> session]
             ELSE [response |-> [status |-> req.upstream.status, content |-> data],
                   session |-> add_user(session, req, data["email"])]
    ELSE [response |-> [status |-> req.upstream.status,
                        content |-> req.upstream.content],
          session |-> session]

\* main.py:307-308
rewrite_models(okey, gkey, data) ==
    SetKey(SetKey(data, "default_models", RAYCAST_DEFAULT_MODELS(okey, gkey)),
           "models", Catalog)

\* GET /api/v1/ai/models
proxy_models(okey, gkey, req) ==
    IF req.upstream.status = 200
    THEN IF ~DefaultModelsBound(okey, gkey)
         THEN Raised("NameError")
         ELSE [status |-> req.upstream.status,
               content |-> rewrite_models(okey, gkey, req.upstream.content)]
    ELSE [status |-> req.upstream.status, content |-> req.upstream.content]

\* every other path
proxy_options(req) ==
    [status |-> req.upstream.status, content |-> req.upstream.content]

-----------------------------------------------------------------------------
(* Stream adapters (main.py:178-195, 228-235)                               *)

\* f'data: {json.dumps(event)}\n\n'
SSE(event) == <<"data: ", event, "\n\n">>

EventOf(frame) == frame[2]

\* response.choices[0] raises IndexError on a chunk without choices.
HasChoice(chunk) == chunk.choices

\* Faulty variant: the delta test written as an elif of the finish test.
openai_frames_elif(chunk) ==
    IF chunk.finish_reason # None
    THEN <<SSE([text |-> "", finish_reason |-> chunk.finish_reason])>>
    ELSE IF chunk.has_delta /\ Truthy(chunk.content)
    THEN <<SSE([text |-> chunk.content])>>
    ELSE <<>>

\* The frames one iteration of the loop at main.py:188-195 yields.
openai_frames(chunk) ==
    (IF chunk.finish_reason # None
     THEN <<SSE([text |-> "", finish_reason |-> chunk.finish_reason])>>
     ELSE <<>>)
    \o
    (IF chunk.has_delta /\ Truthy(chunk.content)
     THEN <<SSE([text |-> chunk.content])>>
     ELSE <<>>)

\* The frame one iteration of the loop at main.py:230-232 yields.
gemini_frames(chunk) == <<SSE([text |-> chunk.text])>>

\* main.py:233-235: json.dumps is given the exception object itself as
\* finish_reason, which it cannot serialize: it raises TypeError before the
\* yield, so the except branch yields no frame.
gemini_blocked_frames == <<>>

-----------------------------------------------------------------------------
(* Inputs                                                                   *)

Tokens == {"t1", "t2"}

Emails == {"a@x.com", "b@x.com"}

AuthHeaders == {NoAuthorization} \cup {Bearer(t) : t \in Tokens}

AllowLists == {{}, {"a@x.com"}}

ForceModels == {None, "gemini-pro", "gpt-4-1106-preview"}

ApiKeys == {None, "key"}

RequestModels == {"gpt-3.5-turbo", "gemini-pro", "openai-gpt-3.5-turbo", "no-such-model"}

Opt(k, V) == {<<>>} \cup {k :> v : v \in V}

\* Contents of a chat message: any subset of the four fields.
MsgContents ==
    {s @@ c @@ t @@ p :
        s \in Opt("system_instructions", {<<"S">>}),
        c \in Opt("command_instructions", {<<"C">>}),
        t \in Opt("text", {<<"a">>, <<"b">>}),
        p \in Opt("temperature", {2, 9})}

Messages == {[content |-> c] : c \in MsgContents}

\* Messages of the requests of the server specification: text only.
PlainMessages == {[content |-> "text" :> <<"h", "i">>]}

\* Bodies of chat requests; additional is the set of values the request may
\* carry as additional_system_instructions, besides not carrying the field.
ChatData(models, messages, additional) ==
    {("model" :> m) @@ ("messages" :> ms) @@ a :
        m \in models,
        ms \in SeqsUpTo(messages, MaxMsgs),
        a \in Opt("additional_system_instructions", additional)}

\* Chat requests of the server specification: plain text messages.
ChatRequests ==
    {[op |-> "chat", auth |-> h, data |-> d] :
        h \in AuthHeaders, d \in ChatData(RequestModels, PlainMessages, {})}

Profile(e) == "email" :> e

\* An upstream profile that already carries the fields, with other values.
DeniedProfile(e) ==
    SetKey(SetKey(SetKeys(Profile(e), EntitlementFields, FALSE),
                  "can_upgrade_to_pro", TRUE),
           "admin", FALSE)

ProfileContents ==
    {Profile(e) : e \in Emails} \cup {DeniedProfile("a@x.com"), "username" :> "u"}

UpstreamStatuses == {200, 401}

MeRequests ==
    {[op |-> "me", auth |-> h, upstream |-> [status |-> st, content |-> c]] :
        h \in AuthHeaders, st \in UpstreamStatuses, c \in ProfileContents}

ForeignModels ==
    <<[id |-> "raycast-ray1", model |-> "ray1", name |-> "Ray 1",
       provider |-> "raycast", provider_name |-> "Raycast",
       requires_better_ai |-> FALSE, features |-> <<"chat">>]>>

ForeignDefaults ==
    [chat |-> "raycast-ray1", quick_ai |-> "raycast-ray1",
     commands |-> "raycast-ray1", api |-> "raycast-ray1"]

ModelListContents ==
    {<<>>,
     "next_cursor" :> "n1",
     ("models" :> ForeignModels) @@ ("default_models" :> ForeignDefaults)
        @@ ("next_cursor" :> "n1")}

ModelsRequests ==
    {[op |-> "models", auth |-> Bearer("t1"),
      upstream |-> [status |-> st, content |-> c]] :
        st \in UpstreamStatuses, c \in ModelListContents}

OtherRequests ==
    {[op |-> "other", auth |-> Bearer("t1"),
      upstream |-> [status |-> st, content |-> "next_cursor" :> "n1"]] :
        st \in UpstreamStatuses}

\* Chunks of an OpenAI stream: response.choices may be empty; choices[0] has
\* finish_reason (or None) and delta (or None) with content (or None).
OpenaiChunks ==
    {[choices |-> FALSE, finish_reason |-> None, has_delta |-> FALSE, content |-> None]}
    \cup
    {[choices |-> TRUE, finish_reason |-> f, has_delta |-> FALSE, content |-> None] :
        f \in {None, "stop"}}
    \cup
    {[choices |-> TRUE, finish_reason |-> f, has_delta |-> TRUE, content |-> c] :
        f \in {None, "stop"}, c \in {None, "", "Hel", "lo"}}

\* Items of a Gemini stream: a chunk with its text, or the iterator raising
\* BlockedPromptException.
GeminiChunks ==
    {[blocked |-> FALSE, text |-> t] : t \in {"Hel", "lo"}}
    \cup {[blocked |-> TRUE, text |-> ""]}

-----------------------------------------------------------------------------
(* Actions                                                                  *)

NoRequest == [op |-> "none"]

NoResponse == [status |-> 0]

IdleStream ==
    /\ chunks = <<>>
    /\ pos = 0
    /\ emitted = <<>>
    /\ stream_of = "none"
    /\ stream_state = "idle"

Slots == 1..MaxRequests

FreeSlot == [pc |-> "free"]

NoneInFlight == inflight = [s \in Slots |-> FreeSlot]

ChatCompletions(req) ==
    LET out == chat_completions(USER_SESSION, ALLOWED_USERS, FORCE_MODEL,
                                openai_api_key, google_api_key, req)
    IN  /\ request' = req
        /\ response' = out.response
        /\ lookups' = out.lookups
        /\ calls' = out.calls
        /\ UNCHANGED <<config, USER_SESSION, stream_vars, inflight>>

Me(req) ==
    LET out == proxy(USER_SESSION, req)
    IN  /\ request' = req
        /\ response' = out.response
        /\ USER_SESSION' = out.session
        /\ lookups' = <<>>
        /\ calls' = <<>>
        /\ UNCHANGED <<config, stream_vars, inflight>>

Models(req) ==
    /\ request' = req
    /\ response' = proxy_models(openai_api_key, google_api_key, req)
    /\ lookups' = <<>>
    /\ calls' = <<>>
    /\ UNCHANGED <<config, USER_SESSION, stream_vars, inflight>>

Other(req) ==
    /\ request' = req
    /\ response' = proxy_options(req)
    /\ lookups' = <<>>
    /\ calls' = <<>>
    /\ UNCHANGED <<config, USER_SESSION, stream_vars, inflight>>

\* One iteration of  for response in stream  (main.py:188-195).
OpenaiStreamStep ==
    /\ stream_of = "openai"
    /\ stream_state = "open"
    /\ pos < Len(chunks)
    /\ pos' = pos + 1
    /\ IF HasChoice(chunks[pos + 1])
       THEN /\ emitted' = emitted \o openai_frames(chunks[pos + 1])
            /\ stream_state' = stream_state
       ELSE /\ emitted' = emitted
            /\ stream_state' = "error"
    /\ UNCHANGED <<config, USER_SESSION, request, response, lookups, calls,
                   chunks, stream_of, inflight>>

\* One iteration of  for chunk in result  (main.py:230-235).
GeminiStreamStep ==
    /\ stream_of = "google"
    /\ stream_state = "open"
    /\ pos < Len(chunks)
    /\ pos' = pos + 1
    /\ IF chunks[pos + 1].blocked
       THEN /\ emitted' = emitted \o gemini_blocked_frames
            /\ stream_state' = "error"
       ELSE /\ emitted' = emitted \o gemini_frames(chunks[pos + 1])
            /\ stream_state' = stream_state
    /\ UNCHANGED <<config, USER_SESSION, request, response, lookups, calls,
                   chunks, stream_of, inflight>>

\* The provider's stream is exhausted: the generator returns.
StreamEnd ==
    /\ stream_state = "open"
    /\ pos = Len(chunks)
    /\ stream_state' = "done"
    /\ UNCHANGED <<config, USER_SESSION, request, response, lookups, calls,
                   chunks, pos, emitted, stream_of, inflight>>

\* The slots whose handler is suspended at an await, other than slot s.
AwaitingBeside(s) == {o \in Slots \ {s} : inflight[o].pc = "awaiting"}

\* A handler coroutine starts and runs to its first await: request.body() and
\* pass_through_request in proxy (main.py:264-267), request.json() in
\* chat_completions (main.py:242). Nothing shared is read or written before.
\* Slots are taken in the order of arrival.
Receive(s, req) ==
    /\ inflight[s] = FreeSlot
    /\ \A o \in 1..(s - 1) : inflight[o] # FreeSlot
    /\ inflight' = [inflight EXCEPT ![s] = [pc |-> "awaiting", req |-> req]]
    /\ UNCHANGED <<config, USER_SESSION, request, response, lookups, calls,
                   stream_vars>>

\* pass_through_request returns in proxy: main.py:268-289 has no await, so the
\* event loop runs it, add_user included, without switching coroutines.
MeReturns(s, upstream) ==
    /\ inflight[s].pc = "awaiting"
    /\ inflight[s].req.op = "me"
    /\ LET req == [op |-> "me", auth |-> inflight[s].req.auth,
                   upstream |-> upstream]
           out == proxy(USER_SESSION, req)
       IN  /\ USER_SESSION' = out.session
           /\ inflight' = [inflight EXCEPT ![s] =
                    [pc |-> "done", req |-> req, response |-> out.response,
                     during |-> AwaitingBeside(s)]]
    /\ UNCHANGED <<config, request, response, lookups, calls, stream_vars>>

\* request.json() returns in chat_completions: main.py:243-253 runs without
\* suspending (the provider functions await nothing), check_auth included.
ChatResumes(s) ==
    /\ inflight[s].pc = "awaiting"
    /\ inflight[s].req.op = "chat"
    /\ LET out == chat_completions(USER_SESSION, ALLOWED_USERS, FORCE_MODEL,
                                   openai_api_key, google_api_key,
                                   inflight[s].req)
       IN  inflight' = [inflight EXCEPT ![s] =
                [pc |-> "done", req |-> inflight[s].req,
                 response |-> out.response, during |-> AwaitingBeside(s)]]
    /\ UNCHANGED <<config, USER_SESSION, request, response, lookups, calls,
                   stream_vars>>

-----------------------------------------------------------------------------
(* Specifications                                                           *)

InitConfig ==
    /\ ALLOWED_USERS \in AllowLists
    /\ FORCE_MODEL \in ForceModels
    /\ openai_api_key \in ApiKeys
    /\ google_api_key \in ApiKeys

\* The server: any configuration, any sequence of requests.
Init ==
    /\ InitConfig
    /\ USER_SESSION = <<>>
    /\ request = NoRequest
    /\ response = NoResponse
    /\ lookups = <<>>
    /\ calls = <<>>
    /\ IdleStream
    /\ NoneInFlight

Next ==
    \/ \E req \in ChatRequests : ChatCompletions(req)
    \/ \E req \in MeRequests : Me(req)
    \/ \E req \in ModelsRequests : Models(req)
    \/ \E req \in OtherRequests : Other(req)

Spec == Init /\ [][Next]_vars

ModelServedBy(gkey) == IF Truthy(gkey) THEN "gemini-pro" ELSE "gpt-3.5-turbo"

\* The translators: one chat request, of any shape, received by a server
\* with one of the two backends active and no allow-list.
InitTranslate ==
    /\ ALLOWED_USERS = {}
    /\ FORCE_MODEL = None
    /\ \E k \in {<<"key", None>>, <<None, "key">>} :
            openai_api_key = k[1] /\ google_api_key = k[2]
    /\ USER_SESSION = <<>>
    /\ \E d \in ChatData({ModelServedBy(google_api_key)}, Messages, {<<"A">>}) :
            request = [op |-> "chat", auth |-> Bearer("t1"), data |-> d]
    /\ response = NoResponse
    /\ lookups = <<>>
    /\ calls = <<>>
    /\ IdleStream
    /\ NoneInFlight

Translate ==
    /\ response = NoResponse
    /\ ChatCompletions(request)

SpecTranslate == InitTranslate /\ [][Translate]_vars

\* The stream adapters: one provider stream, adapted item by item.
InitStream ==
    /\ ALLOWED_USERS = {}
    /\ FORCE_MODEL = None
    /\ openai_api_key = None
    /\ google_api_key = None
    /\ USER_SESSION = <<>>
    /\ request = NoRequest
    /\ response = NoResponse
    /\ lookups = <<>>
    /\ calls = <<>>
    /\ \/ /\ stream_of = "openai"
          /\ chunks \in SeqsUpTo(OpenaiChunks, MaxChunks)
       \/ /\ stream_of = "google"
          /\ chunks \in SeqsUpTo(GeminiChunks, MaxChunks)
    /\ stream_state = "open"
    /\ pos = 0
    /\ emitted = <<>>
    /\ NoneInFlight

NextStream ==
    \/ OpenaiStreamStep
    \/ GeminiStreamStep
    \/ StreamEnd

SpecStream == InitStream /\ [][NextStream]_vars

\* Requests as they arrive at a handler of the concurrent server: a profile
\* fetch (its upstream answer is not known yet) or a chat request.
ArrivingRequests ==
    {[op |-> "me", auth |-> Bearer(t)] : t \in Tokens}
    \cup
    {[op |-> "chat", auth |-> Bearer(t),
      data |-> ("model" :> "gpt-3.5-turbo")
                  @@ ("messages" :> <<[content |-> "text" :> <<"h", "i">>]>>)] :
        t \in Tokens}

\* What the upstream may answer to a profile fetch: the profile of either
\* principal, or a refusal.
ProfileAnswers ==
    {[status |-> 200, content |-> Profile(e)] : e \in Emails}
    \cup {[status |-> 401, content |-> "error" :> "unauthorized"]}

\* The concurrent server: an allow-list and the OpenAI backend configured,
\* MaxRequests requests handled by coroutines that interleave at their awaits.
InitConc ==
    /\ ALLOWED_USERS = {"a@x.com"}
    /\ FORCE_MODEL = None
    /\ openai_api_key = "key"
    /\ google_api_key = None
    /\ USER_SESSION = <<>>
    /\ request = NoRequest
    /\ response = NoResponse
    /\ lookups = <<>>
    /\ calls = <<>>
    /\ IdleStream
    /\ NoneInFlight

NextConc ==
    \/ \E s \in Slots, req \in ArrivingRequests : Receive(s, req)
    \/ \E s \in Slots, upstream \in ProfileAnswers : MeReturns(s, upstream)
    \/ \E s \in Slots : ChatResumes(s)

SpecConc == InitConc /\ [][NextConc]_vars

-----------------------------------------------------------------------------
(* Properties                                                               *)

\* What the allow-list gate is specified to answer for a token.
Authorized(t) ==
    \/ ALLOWED_USERS = {}
    \/ (t \in DOMAIN USER_SESSION /\ USER_SESSION[t] \in ALLOWED_USERS)

\* C1: in every reachable state check_auth answers true for a token exactly
\* when no allow-list is configured, or the token has a session whose email
\* is in the allow-list; and a chat request carrying the token is answered
\* 401 exactly when check_auth answers false.
C1_AuthorizeIffAllowed ==
    /\ \A t \in Tokens :
         check_auth(USER_SESSION, ALLOWED_USERS, [auth |-> Bearer(t)])
            = Authorized(t)
    /\ (request.op = "chat" /\ HasBearerToken(request))
         => ((response.status = 401) = ~Authorized(bearer_token(request)))

\* C1 witness: allow-list {a@x.com}, t1 recorded for a@x.com, t2 for b@x.com,
\* and a chat request with t2 has just been rejected.
C1_Witness ==
    /\ ALLOWED_USERS = {"a@x.com"}
    /\ DOMAIN USER_SESSION = {"t1", "t2"}
    /\ USER_SESSION["t1"] = "a@x.com"
    /\ USER_SESSION["t2"] = "b@x.com"
    /\ request.op = "chat"
    /\ request.auth = Bearer("t2")
    /\ response.status = 401

\* The last request made the profile handler call add_user.
RecordsSession ==
    /\ request.op = "me"
    /\ request.upstream.status = 200
    /\ Has(request.upstream.content, "email")
    /\ HasBearerToken(request)

\* C2: no step removes or alters an entry of the session map, and a step in
\* which add_user is called for a token stores the email only when the token
\* had no entry; so a token keeps the email of the first call made for it.
C2_InsertIfAbsent ==
    [][ /\ \A t \in DOMAIN USER_SESSION :
              t \in DOMAIN USER_SESSION' /\ USER_SESSION'[t] = USER_SESSION[t]
        /\ RecordsSession' =>
              LET t == bearer_token(request')
              IN  /\ t \in DOMAIN USER_SESSION'
                  /\ USER_SESSION'[t] =
                        IF t \in DOMAIN USER_SESSION
                        THEN USER_SESSION[t]
                        ELSE request'.upstream.content["email"]
      ]_vars

\* C2 witness: add_user has just been called for a token with an email other
\* than the one the token already had, and the map still holds the old one.
C2_Witness ==
    /\ RecordsSession
    /\ bearer_token(request) \in DOMAIN USER_SESSION
    /\ USER_SESSION[bearer_token(request)] # request.upstream.content["email"]

\* C3: a step changes the session map only if it is a profile fetch whose
\* upstream status is 200.
C3_OnlyProfileFetchWrites ==
    [][ USER_SESSION' # USER_SESSION
            => (request'.op = "me" /\ request'.upstream.status = 200) ]_vars

\* C3 witness: a profile fetch with a token and an upstream body carrying an
\* email, answered non-200 upstream, has left the token without a session
\* while another token has one.
C3_Witness ==
    /\ request.op = "me"
    /\ request.upstream.status # 200
    /\ Has(request.upstream.content, "email")
    /\ HasBearerToken(request)
    /\ bearer_token(request) \notin DOMAIN USER_SESSION
    /\ USER_SESSION # <<>>

IsFinish(frame) == Has(EventOf(frame), "finish_reason")

\* C4: the frames an adapter has emitted hold at most one finish event, and
\* a finish event is the last frame emitted.
C4_FinishIsLast ==
    \A i \in 1..Len(emitted) : IsFinish(emitted[i]) => i = Len(emitted)

CarriesText(chunk) == chunk.choices /\ chunk.has_delta /\ Truthy(chunk.content)

CarriesFinish(chunk) == chunk.choices /\ chunk.finish_reason # None

\* The chunks are k text deltas followed by one chunk with only a finish
\* reason.
DeltasThenFinish(cs) ==
    /\ cs # <<>>
    /\ \A i \in 1..(Len(cs) - 1) : CarriesText(cs[i]) /\ ~CarriesFinish(cs[i])
    /\ CarriesFinish(cs[Len(cs)]) /\ ~CarriesText(cs[Len(cs)])

\* The texts of the text events among the frames, in order.
TextsOf(frames) ==
    LET texts == SelectSeq(frames, LAMBDA f : ~IsFinish(f))
    IN  [i \in 1..Len(texts) |-> EventOf(texts[i]).text]

\* The delta texts of the chunks that carry one, in order.
DeltasOf(cs) ==
    LET with == SelectSeq(cs, CarriesText)
    IN  [i \in 1..Len(with) |-> with[i].content]

\* C5: when the OpenAI adapter has returned from a stream of k text deltas
\* followed by a finish chunk, it has emitted exactly the k text frames and
\* then the finish frame; and at every point the text events emitted are the
\* delta texts of the chunks consumed so far, in order.
C5_DeltasThenFinishExact ==
    stream_of = "openai" =>
        /\ (stream_state = "done" /\ DeltasThenFinish(chunks)) =>
              emitted = [i \in 1..Len(chunks) |->
                            IF i < Len(chunks)
                            THEN SSE([text |-> chunks[i].content])
                            ELSE SSE([text |-> "",
                                      finish_reason |-> chunks[i].finish_reason])]
        /\ TextsOf(emitted) = DeltasOf(SubSeq(chunks, 1, pos))

\* C5 witness: chunks "Hel", "lo", finish "stop" have been adapted to the
\* three frames of the specification's example.
C5_Witness ==
    /\ stream_of = "openai"
    /\ stream_state = "done"
    /\ Len(chunks) = 3
    /\ DeltasThenFinish(chunks)
    /\ emitted = <<SSE([text |-> "Hel"]), SSE([text |-> "lo"]),
                   SSE([text |-> "", finish_reason |-> "stop"])>>

\* The chat handler got as far as looking the resolved model up.
Dispatching == request.op = "chat" /\ lookups # <<>>

\* The descriptors of the catalog whose field (id or model) equals key.
Advertised(field, key) ==
    {i \in 1..Len(Catalog) : Catalog[i][field] = key}

\* The index maps the given field of every descriptor to its provider, and
\* a chat request whose resolved model is that field of a descriptor is
\* looked up without error and sent to no other provider's backend.
IndexKeyedBy(field) ==
    /\ \A i \in 1..Len(Catalog) :
          /\ Catalog[i][field] \in DOMAIN MODEL_PROVIDER_MAP
          /\ MODEL_PROVIDER_MAP[Catalog[i][field]] = Catalog[i].provider
    /\ (Dispatching /\ Advertised(field, lookups[1]) # {}) =>
          /\ response.status # 500
          /\ \A c \in 1..Len(calls), i \in Advertised(field, lookups[1]) :
                calls[c].provider = Catalog[i].provider

\* C6 as claimed: the provider index is keyed by the descriptor's id, so the
\* id of every descriptor is found in it with the descriptor's provider and
\* a chat request for an advertised id is dispatched.
C6_IndexKeyedById == IndexKeyedBy("id")

\* C6 as amended: the provider index is keyed by the descriptor's backend
\* model name; a chat request is dispatched by that name, and a resolved
\* model that is no descriptor's model name raises KeyError at the lookup,
\* also when it is an advertised id.
C6_IndexKeyedByModel ==
    /\ IndexKeyedBy("model")
    /\ DOMAIN MODEL_PROVIDER_MAP = {Catalog[i].model : i \in 1..Len(Catalog)}
    /\ (Dispatching /\ Advertised("model", lookups[1]) = {}) =>
          (response = Raised("KeyError") /\ calls = <<>>)

\* C6 witness: a chat request for the backend model name gpt-3.5-turbo has
\* been looked up and sent to the OpenAI backend.
C6_Witness ==
    /\ Dispatching
    /\ lookups[1] = "gpt-3.5-turbo"
    /\ calls # <<>>
    /\ calls[1].provider = "openai"

\* The model id the specification resolves a chat request to.
Resolved(req) ==
    IF FORCE_MODEL \notin {None, ""} THEN FORCE_MODEL ELSE req.data.model

\* The chat handler passed the gate (it neither raised in it nor answered 401).
PassedGate ==
    /\ request.op = "chat"
    /\ response.status # 401
    /\ response # Raised("IndexError")

\* C7: for every chat request that passes the gate, the key looked up in the
\* provider index and the model of every provider call is FORCE_MODEL when
\* that is set and the request's model otherwise.
C7_OverrideWins ==
    PassedGate =>
        /\ lookups # <<>>
        /\ \A i \in 1..Len(lookups) : lookups[i] = Resolved(request)
        /\ \A i \in 1..Len(calls) : calls[i].model = Resolved(request)

\* C7 witness: with FORCE_MODEL = gemini-pro a request for gpt-3.5-turbo has
\* been looked up and sent to the backend as gemini-pro.
C7_Witness ==
    /\ FORCE_MODEL = "gemini-pro"
    /\ request.op = "chat"
    /\ request.data.model = "gpt-3.5-turbo"
    /\ lookups # <<>>
    /\ calls # <<>>
    /\ calls[1].model = "gemini-pro"

\* Every message of the chat request has a text.
AllHaveText(req) ==
    \A i \in 1..Len(req.data.messages) : Has(req.data.messages[i].content, "text")

\* The texts of the messages, in message order.
TextsIn(req) ==
    [i \in 1..Len(req.data.messages) |-> req.data.messages[i].content["text"]]

\* The user-role content units of a provider call: the user messages of an
\* OpenAI call; the one prompt string of a Gemini call, which the client
\* library sends as a single user content (none when the prompt is empty).
UserRoleUnits(call) ==
    IF call.provider = "openai"
    THEN LET users == SelectSeq(call.messages, LAMBDA m : m.role = "user")
         IN  [i \in 1..Len(users) |-> users[i].content]
    ELSE IF call.prompt = <<>> THEN <<>> ELSE <<call.prompt>>

\* The least position at which part occurs in s at or after from (0: none).
FirstAt(s, part, from) ==
    LET at == {p \in from..(Len(s) - Len(part) + 1) :
                    SubSeq(s, p, p + Len(part) - 1) = part}
    IN  IF at = {} THEN 0 ELSE CHOOSE p \in at : \A q \in at : p <= q

\* parts occur in s at or after from, one after the other without overlap.
RECURSIVE OccurInOrder(_, _, _)
OccurInOrder(s, parts, from) ==
    IF parts = <<>> THEN TRUE
    ELSE LET p == FirstAt(s, Head(parts), from)
         IN  p # 0 /\ OccurInOrder(s, Tail(parts), p + Len(Head(parts)))

\* C8 as claimed: a chat request whose N messages all have a text is
\* translated, for either provider, to a call with exactly N user-role
\* content units, the i-th of which carries (contains) the i-th text.
C8_NUserUnits ==
    (request.op = "chat" /\ calls # <<>> /\ AllHaveText(request)) =>
        LET units == UserRoleUnits(calls[1])
        IN  /\ Len(units) = Len(request.data.messages)
            /\ \A i \in 1..Len(units) :
                  FirstAt(units[i], TextsIn(request)[i], 1) # 0

\* C8 as amended: the OpenAI translation has exactly N user-role messages,
\* the texts in message order; the Gemini translation is one prompt string,
\* in which the texts, each followed by a line break, occur one after the
\* other in message order.
C8_TextsInOrder ==
    (request.op = "chat" /\ calls # <<>> /\ AllHaveText(request)) =>
        IF calls[1].provider = "openai"
        THEN UserRoleUnits(calls[1]) = TextsIn(request)
        ELSE OccurInOrder(calls[1].prompt,
                          [i \in 1..Len(TextsIn(request)) |->
                                TextsIn(request)[i] \o NL], 1)

\* C8 witness: two messages with the texts a and b, the first also with
\* system and command instructions, in a request with additional
\* instructions, have been translated for Gemini.
C8_Witness ==
    /\ request.op = "chat"
    /\ calls # <<>>
    /\ calls[1].provider = "google"
    /\ Len(request.data.messages) = 2
    /\ AllHaveText(request)
    /\ TextsIn(request) = << <<"a">>, <<"b">> >>
    /\ Has(request.data.messages[1].content, "system_instructions")
    /\ Has(request.data.messages[1].content, "command_instructions")
    /\ Has(request.data, "additional_system_instructions")

\* C9: a profile fetch answered 200 upstream with an email, made with a
\* bearer token, returns the payload with every entitlement field and admin
\* true and can_upgrade_to_pro false, and leaves the token with a session,
\* which is the email when the token had none before.
C9_ProfileRewrite ==
    [][ RecordsSession' =>
          LET t == bearer_token(request')
              out == response'.content
          IN  /\ response'.status = 200
              /\ \A f \in Range(EntitlementFields) \cup {"admin"} :
                    Has(out, f) /\ out[f] = TRUE
              /\ Has(out, "can_upgrade_to_pro")
              /\ out["can_upgrade_to_pro"] = FALSE
              /\ t \in DOMAIN USER_SESSION'
              /\ t \notin DOMAIN USER_SESSION =>
                    USER_SESSION'[t] = request'.upstream.content["email"]
      ]_vars

\* C9 witness: an upstream profile that denied every entitlement has been
\* rewritten, and its email recorded for the token.
C9_Witness ==
    /\ RecordsSession
    /\ request.upstream.content = DeniedProfile("a@x.com")
    /\ response.content["admin"] = TRUE
    /\ response.content["can_upgrade_to_pro"] = FALSE
    /\ USER_SESSION[bearer_token(request)] = "a@x.com"

\* C10: a model-list fetch answered 200 upstream returns the upstream payload
\* with models set to the catalog and default_models to
\* RAYCAST_DEFAULT_MODELS, and every other field as upstream sent it.
C10_ModelListRewrite ==
    (request.op = "models" /\ request.upstream.status = 200) =>
        /\ response.status = 200
        /\ DOMAIN response.content =
              DOMAIN request.upstream.content \cup {"models", "default_models"}
        /\ response.content["models"] = Catalog
        /\ response.content["default_models"] =
              RAYCAST_DEFAULT_MODELS(openai_api_key, google_api_key)
        /\ \A k \in DOMAIN request.upstream.content \ {"models", "default_models"} :
              response.content[k] = request.upstream.content[k]

\* C11: a profile or model-list fetch answered non-200 upstream returns the
\* upstream status and the upstream body as they came: nothing is injected.
C11_Non200PassedThrough ==
    (request.op \in {"me", "models"} /\ request.upstream.status # 200) =>
        /\ response.status = request.upstream.status
        /\ response.content = request.upstream.content

\* C11 witness: a profile fetch answered 401 upstream, whose body carries an
\* email and lacks the entitlement fields, has been returned as it came.
C11_Witness ==
    /\ request.op = "me"
    /\ HasBearerToken(request)
    /\ request.upstream.status = 401
    /\ request.upstream.content = Profile("a@x.com")
    /\ response = [status |-> 401, content |-> Profile("a@x.com")]

\* C12: a chat request the gate rejects (its token is not authorized) is
\* answered 401 and nothing else: no registry lookup, no provider call and no
\* stream; and no 401 answer comes with a provider call or a stream.
C12_RejectedBeforeUpstream ==
    /\ (request.op = "chat" /\ HasBearerToken(request)
            /\ ~Authorized(bearer_token(request))) =>
          /\ response = [status |-> 401]
          /\ lookups = <<>>
          /\ calls = <<>>
    /\ (request.op = "chat" /\ response.status = 401) =>
          /\ "stream" \notin DOMAIN response
          /\ lookups = <<>>
          /\ calls = <<>>

\* C12 witness: a rejected chat request for a model that would have been
\* served had the gate let it through.
C12_Witness ==
    /\ request.op = "chat"
    /\ HasBearerToken(request)
    /\ ~Authorized(bearer_token(request))
    /\ openai_api_key = "key" /\ google_api_key = None
    /\ Resolved(request) = "gpt-3.5-turbo"
    /\ response = [status |-> 401]
    /\ calls = <<>>

\* The resolved model of the request is no descriptor's id and no descriptor's
\* backend model name: it is absent from the registry however it is keyed.
UnknownModel ==
    /\ Advertised("id", Resolved(request)) = {}
    /\ Advertised("model", Resolved(request)) = {}

\* C13: a chat request that passes the gate and whose resolved model is absent
\* from the registry is answered with an error response that the handler
\* built itself (no exception left the handler), and no provider call is made.
C13_UnknownModelIsErrorResponse ==
    (PassedGate /\ UnknownModel) =>
        /\ response.status >= 400
        /\ "error" \notin DOMAIN response
        /\ calls = <<>>

\* The chat request passed the gate and its resolved model is in the provider
\* index under a provider other than the backend activated at startup.
InactiveProviderRequested ==
    /\ PassedGate
    /\ Resolved(request) \in DOMAIN MODEL_PROVIDER_MAP
    /\ MODEL_PROVIDER_MAP[Resolved(request)]
          # ActiveBackend(openai_api_key, google_api_key)

\* C14: a chat request that passes the gate and resolves to a model of a
\* provider whose backend is not the active one gets an error outcome (never
\* a successful status) and makes no provider call; and every provider call
\* that is made goes to the one backend activated at startup.
C14_InactiveProviderIsError ==
    /\ InactiveProviderRequested =>
          /\ response.status >= 400
          /\ calls = <<>>
    /\ (request.op = "chat" /\ calls # <<>>) =>
          calls[1].provider = ActiveBackend(openai_api_key, google_api_key)

\* The number of finish events among the frames.
FinishCount(frames) == Len(SelectSeq(frames, IsFinish))

\* C15: once the OpenAI adapter has consumed a chunk carrying a finish
\* reason, it has emitted exactly one finish event, that event is the last
\* frame emitted, and the finish chunk is the last chunk consumed, whatever
\* chunks the provider's stream still holds.
C15_StopsAtFinish ==
    stream_of = "openai" =>
        \A i \in 1..pos :
            CarriesFinish(chunks[i]) =>
                /\ FinishCount(emitted) = 1
                /\ IsFinish(emitted[Len(emitted)])
                /\ pos = i

\* The frames the Gemini adapter is specified to have emitted after consuming
\* the first n items of the stream: one text event per chunk, in order, and
\* one finish event for a block.
RECURSIVE gemini_expected(_, _)
gemini_expected(cs, n) ==
    IF n = 0 THEN <<>>
    ELSE gemini_expected(cs, n - 1) \o
         <<IF cs[n].blocked THEN "finish" ELSE cs[n].text>>

\* What a frame is: its text for a text event, "finish" for a finish event.
FrameKind(frame) == IF IsFinish(frame) THEN "finish" ELSE EventOf(frame).text

\* C16: the Gemini adapter emits one text event per chunk received, in
\* order, and when the provider signals a block it emits exactly one finish
\* event after them and the stream ends normally, not in an error.
C16_BlockIsFinishEvent ==
    stream_of = "google" =>
        /\ [i \in 1..Len(emitted) |-> FrameKind(emitted[i])]
              = gemini_expected(chunks, pos)
        /\ stream_state # "error"

\* A field of a message as a list of at most one unit <<role, content>>.
UnitOf(d, field, role) ==
    IF Has(d, field) THEN << <<role, d[field]>> >> ELSE <<>>

\* The units the specification gives a chat request, message by message:
\* system_instructions, command_instructions, the request's
\* additional_system_instructions, then the text, each when present.
SpecifiedUnits(data) ==
    Concat([i \in 1..Len(data.messages) |->
        UnitOf(data.messages[i].content, "system_instructions", "system")
        \o UnitOf(data.messages[i].content, "command_instructions", "system")
        \o UnitOf(data, "additional_system_instructions", "system")
        \o UnitOf(data.messages[i].content, "text", "user")])

\* How many copies of the additional instructions a provider call carries:
\* system-role messages with that content in an OpenAI call, occurrences of
\* its text in the prompt of a Gemini call (the inputs' texts are distinct
\* single characters).
AdditionalCopies(call, additional) ==
    IF call.provider = "openai"
    THEN Len(SelectSeq(call.messages,
                LAMBDA m : m.role = "system" /\ m.content = additional))
    ELSE Len(SelectSeq(call.prompt, LAMBDA ch : <<ch>> = additional))

\* C17: the translated request holds the specified units in the specified
\* order, so that a request with additional_system_instructions and M
\* messages carries exactly M copies of it, one per message (with or without
\* text), each after that message's system and command instructions and
\* before its text; and a request without the field carries no such unit.
\* For Gemini the units are the lines of the one prompt.
C17_AdditionalPerMessage ==
    (request.op = "chat" /\ calls # <<>>) =>
        LET data == request.data
            units == SpecifiedUnits(data)
        IN  /\ IF calls[1].provider = "openai"
               THEN calls[1].messages =
                        [i \in 1..Len(units) |->
                            [role |-> units[i][1], content |-> units[i][2]]]
               ELSE calls[1].prompt =
                        Concat([i \in 1..Len(units) |-> units[i][2] \o NL])
            /\ AdditionalCopies(calls[1], <<"A">>) =
                  IF Has(data, "additional_system_instructions")
                  THEN Len(data.messages)
                  ELSE 0

\* C17 witness: an OpenAI call translated from a request with additional
\* instructions and two messages, the first with system instructions and no
\* text, carries two copies.
C17_Witness ==
    /\ request.op = "chat"
    /\ calls # <<>>
    /\ calls[1].provider = "openai"
    /\ Has(request.data, "additional_system_instructions")
    /\ Len(request.data.messages) = 2
    /\ Has(request.data.messages[1].content, "system_instructions")
    /\ ~Has(request.data.messages[1].content, "text")
    /\ AdditionalCopies(calls[1], <<"A">>) = 2

\* The positions of the messages that carry a temperature.
WithTemperature(msgs) ==
    {i \in 1..Len(msgs) : Has(msgs[i].content, "temperature")}

\* C18: the temperature of the provider call is the temperature of the last
\* message that carries one, and the default 0.5 (5 tenths) when no message
\* carries one; messages without a temperature after it change nothing.
C18_LastTemperatureWins ==
    (request.op = "chat" /\ calls # <<>>) =>
        LET msgs == request.data.messages
            at == WithTemperature(msgs)
        IN  calls[1].temperature =
                IF at = {} THEN DEFAULT_TEMPERATURE
                ELSE msgs[CHOOSE i \in at : \A j \in at : j <= i]
                        .content["temperature"]

\* C18 witness: the first message sets temperature 0.9, the second carries
\* none, and the Gemini call is made with 0.9.
C18_Witness ==
    /\ request.op = "chat"
    /\ calls # <<>>
    /\ calls[1].provider = "google"
    /\ Len(request.data.messages) = 2
    /\ WithTemperature(request.data.messages) = {1}
    /\ request.data.messages[1].content["temperature"] = 9
    /\ calls[1].temperature = 9

\* C19: the default_models a 200 model-list answer carries map each of the
\* capabilities chat, quick_ai, commands and api to the id of a descriptor of
\* the catalog that belongs to the provider activated at startup.
C19_DefaultsInCatalog ==
    (request.op = "models" /\ request.upstream.status = 200
        /\ response.status = 200) =>
        LET defaults == response.content["default_models"]
        IN  \A capability \in Range(ChatFeatures) :
                /\ Has(defaults, capability)
                /\ \E i \in 1..Len(Catalog) :
                      /\ Catalog[i].id = defaults[capability]
                      /\ Catalog[i].provider =
                            ActiveBackend(openai_api_key, google_api_key)

\* The slot holds a profile fetch that has returned 200 for token t with the
\* principal e.
IsFetchReturned(slot, t, e) ==
    /\ slot.pc = "done"
    /\ slot.req.op = "me"
    /\ slot.req.auth = Bearer(t)
    /\ slot.response.status = 200
    /\ slot.req.upstream.content["email"] = e

FetchReturned(s, t, e) == IsFetchReturned(inflight[s], t, e)

\* Slot s holds a chat request for token t that is suspended now and is
\* answered by the step.
ChatAnswered(s, t) ==
    /\ inflight[s].pc = "awaiting"
    /\ inflight[s].req.op = "chat"
    /\ inflight[s].req.auth = Bearer(t)
    /\ inflight'[s].pc = "done"

\* C20: under every interleaving of the handlers at their awaits, (1) an
\* entry of the session map never changes or disappears once it is there,
\* (2) every entry is the whole principal of one profile fetch that returned
\* for that token, so of two concurrent fetches with different principals
\* exactly one is kept, and (3) a chat request answered meanwhile is let
\* through exactly when the map, as it is at that moment, authorizes its
\* token: it sees no entry or one complete entry.
C20_InsertIfAbsentInterleaved ==
    [][ /\ \A t \in DOMAIN USER_SESSION :
              t \in DOMAIN USER_SESSION' /\ USER_SESSION'[t] = USER_SESSION[t]
        /\ \A t \in DOMAIN USER_SESSION' :
              /\ USER_SESSION'[t] \in Emails
              /\ \E s \in Slots :
                    IsFetchReturned(inflight'[s], t, USER_SESSION'[t])
        /\ \A s \in Slots, t \in Tokens :
              ChatAnswered(s, t) =>
                 ((inflight'[s].response.status = 401) <=> ~Authorized(t))
      ]_vars

\* C20 witness: two profile fetches with the token t1 were suspended at the
\* same time; the one in slot 1 returned first with the principal a@x.com,
\* the one in slot 2 after it with b@x.com, and the map holds a@x.com; a chat
\* request with t1, suspended while the first fetch returned, was let through.
C20_Witness ==
    /\ FetchReturned(1, "t1", "a@x.com")
    /\ FetchReturned(2, "t1", "b@x.com")
    /\ 2 \in inflight[1].during
    /\ USER_SESSION["t1"] = "a@x.com"
    /\ inflight[3].pc = "done"
    /\ inflight[3].req.op = "chat"
    /\ inflight[3].req.auth = Bearer("t1")
    /\ 3 \in inflight[1].during
    /\ inflight[3].response.status = 200

=============================================================================
